---- MODULE Spec2Model ----
(***************************************************************************)
(* Model of send_emails.py: pre-flight validation, CSV loading with the    *)
(* optional address pattern, the ThreadPoolExecutor fan-out of send_email  *)
(* over the loaded rows, ordered collection of the results and the failure *)
(* export.                                                                 *)
(*                                                                         *)
(* Python values: a str is a sequence of one-character strings, None is    *)
(* the distinguished value None, a dict is the sequence of its <<key,      *)
(* value>> pairs in insertion order.                                       *)
(***************************************************************************)
EXTENDS Integers, Sequences, FiniteSets, TLC

(* ----------------------------- bounds ---------------------------------- *)
\* largest number of data lines in the CSV file
MaxRows == 3
\* largest value of --max-concurrent-threads
MaxWorkers == 2

(* ------------------------- Python values -------------------------------- *)
None == <<"NoneType">>

\* dict lookup d[key]; the caller checks HasKey first (KeyError otherwise)
HasKey(d, key) == \E k \in 1..Len(d) : d[k][1] = key

DictGet(d, key) == d[CHOOSE k \in 1..Len(d) : d[k][1] = key][2]

\* the address values a data line may carry
Addresses == { <<"a", "@", "c">>, <<"b", "@", "d">> }

\* values of EMAILS_MUST_MATCH_REGEX: unset, empty, and the pattern .+@c
\* (a pattern is a sequence of tokens: a literal character or ".+")
Patterns == { None, <<>>, <<".+", "@", "c">> }

\* value of the id column on data line i
IdStr(i) == <<ToString(i)>>

\* headers of the CSV file: with and without the email_address column
Headers == { <<"id", "email_address">>, <<"id">> }

\* data line i of a file with the given header: the id value followed by an
\* address, or a short line that stops after the id
LinesAt(fieldnames, i) ==
    IF Len(fieldnames) = 1
    THEN { <<IdStr(i)>> }
    ELSE { <<IdStr(i)>> } \cup { <<IdStr(i), a>> : a \in Addresses }

\* the CSV files: a header and up to MaxRows data lines
CsvFiles ==
    { [fieldnames |-> h, lines |-> l] :
        h \in Headers,
        l \in UNION { [1..n -> UNION { LinesAt(h2, i) : h2 \in Headers, i \in 1..n }]
                        : n \in 0..MaxRows } }

WellFormed(f) == \A i \in 1..Len(f.lines) : f.lines[i] \in LinesAt(f.fieldnames, i)

\* csv.DictReader: one dict per data line, keyed by the header; a column the
\* line is too short for gets restval = None
DictRow(fieldnames, line) ==
    [k \in 1..Len(fieldnames) |->
        <<fieldnames[k], IF k <= Len(line) THEN line[k] ELSE None>>]

\* re.match(pattern, string): the pattern must match at the start of the
\* string; what follows the match is not looked at
RECURSIVE ReMatch(_, _)
ReMatch(pattern, string) ==
    IF pattern = <<>> THEN TRUE
    ELSE IF Head(pattern) = ".+"
         THEN \E k \in 1..Len(string) :
                 ReMatch(Tail(pattern), SubSeq(string, k + 1, Len(string)))
         ELSE /\ string # <<>>
              /\ Head(string) = Head(pattern)
              /\ ReMatch(Tail(pattern), Tail(string))

\* variant: the empty string counts as a pattern
PatternConfigured_NotNone(regex) == regex # None

\* the pattern is configured: neither unset nor the empty string
PatternConfigured(regex) == regex # None /\ regex # <<>>

\* evaluating the loop's condition raises: row["email_address"] is a KeyError
\* when the column is missing, re.match is a TypeError when the value is None
FilterRaises(regex, row) ==
    /\ PatternConfigured(regex)
    /\ \/ ~HasKey(row, "email_address")
       \/ DictGet(row, "email_address") = None

\* variant: the negation of the match is lost
RowSkipped_Inverted(regex, row) ==
    /\ PatternConfigured(regex)
    /\ ReMatch(regex, DictGet(row, "email_address"))

\* the loop's condition: the row is skipped
RowSkipped(regex, row) ==
    /\ PatternConfigured(regex)
    /\ ~ReMatch(regex, DictGet(row, "email_address"))

\* json.dumps of a str-or-None value
JsonValue(v) == IF v = None THEN <<"n", "u", "l", "l">> ELSE <<"\"">> \o v \o <<"\"">>

\* json.dumps(row): the object's members in insertion order
JsonDumps(row) == [k \in 1..Len(row) |-> <<row[k][1], JsonValue(row[k][2])>>]

\* the errors simple_mail.send_mail raises: <<class, message>>
TransportErrors == { <<"Exception", <<"4", "2", "9">>>> }

\* str(err): the message of the error
Str(err) == err[2]

\* jinja_ext_env.template.render(row) for the template "Hi {{ id }}"
Render(row) ==
    <<"H", "i", " ">> \o (IF HasKey(row, "id") THEN DictGet(row, "id") ELSE <<>>)

\* variant: the failure dict loses the rendered body
FailureInformation_NoBody(row, err, user_rendered_template) ==
    << <<"mail", DictGet(row, "email_address")>>,
       <<"row", JsonDumps(row)>>,
       <<"error", Str(err)>>,
       <<"html_content", None>> >>

\* the dict send_email returns when send_mail raised
FailureInformation(row, err, user_rendered_template) ==
    << <<"mail", DictGet(row, "email_address")>>,
       <<"row", JsonDumps(row)>>,
       <<"error", Str(err)>>,
       <<"html_content", user_rendered_template>> >>

(* ------------------------------ state ----------------------------------- *)
VARIABLES
    pc,                       \* position of the main thread
    fatal,                    \* the pre-flight or loading step that raised, or "none"
    dry_run,                  \* args.dry_run
    max_concurrent_threads,   \* args.max_concurrent_threads
    emails_must_match_regex,  \* os.getenv("EMAILS_MUST_MATCH_REGEX")
    csv_file,                 \* the file at args.csv_path
    row_i,                    \* number of data lines the loading loop has read
    csv_data,                 \* the loaded rows
    submitted,                \* number of futures executor.map has created
    state,                    \* per job: where its send_email call is
    body,                     \* per job: user_rendered_template
    ret,                      \* per job: the value its future holds
    render_calls,             \* per job: number of template.render calls
    send_calls,               \* per job: the arguments of its send_mail calls
    raised,                   \* per job: the error send_mail raised, or None
    fs_idx,                   \* number of futures the result iterator has taken
    results,                  \* the list built from executor.map
    failures,                 \* the failure list
    export_file               \* the rows written to email_failures_*.csv, or None

vars == <<pc, fatal, dry_run, max_concurrent_threads, emails_must_match_regex,
          csv_file, row_i, csv_data, submitted, state, body, ret, render_calls,
          send_calls, raised, fs_idx, results, failures, export_file>>

config == <<dry_run, max_concurrent_threads, emails_must_match_regex, csv_file>>
loaded == <<row_i, csv_data>>
jobs == <<submitted, state, body, ret, render_calls, send_calls, raised>>
collected == <<fs_idx, results, failures, export_file>>

\* the pre-flight steps in program order
PreflightSteps == <<"logs_dir", "env_file", "subject", "template_path", "csv_path",
                    "credentials", "mail_client", "jinja_env", "csv_open">>

Init ==
    /\ pc = "logs_dir"
    /\ fatal = "none"
    /\ dry_run \in BOOLEAN
    /\ max_concurrent_threads \in 0..MaxWorkers
    /\ emails_must_match_regex \in Patterns
    /\ csv_file \in { f \in CsvFiles : WellFormed(f) }
    /\ row_i = 0
    /\ csv_data = <<>>
    /\ submitted = 0
    /\ state = <<>>
    /\ body = <<>>
    /\ ret = <<>>
    /\ render_calls = <<>>
    /\ send_calls = <<>>
    /\ raised = <<>>
    /\ fs_idx = 0
    /\ results = <<>>
    /\ failures = <<>>
    /\ export_file = None

(* --------------------- pre-flight validation ---------------------------- *)
\* variant: the exception is logged and the script carries on
OnFatal_Continue == "executor"

\* where the main thread goes when a pre-flight or loading step raises: the
\* exception is not handled and the process ends
OnFatal == "aborted"

\* the step after pre-flight step s
AfterPreflight(s) ==
    LET k == CHOOSE j \in 1..Len(PreflightSteps) : PreflightSteps[j] = s
    IN  IF k < Len(PreflightSteps) THEN PreflightSteps[k + 1] ELSE "load"

\* one pre-flight step: it passes, or it raises and the run ends
PreflightCheck(ok) ==
    /\ \E k \in 1..Len(PreflightSteps) : PreflightSteps[k] = pc
    /\ IF ok
       THEN pc' = AfterPreflight(pc) /\ fatal' = fatal
       ELSE pc' = OnFatal /\ fatal' = pc
    /\ UNCHANGED <<config, loaded, jobs, collected>>

(* --------------------------- CSV loading -------------------------------- *)
\* one iteration of the loading loop over the next data line: reading the
\* line raises, or evaluating the filter raises, or the row is skipped, or it
\* is appended; any exception ends the run
LoadRow(readable) ==
    /\ pc = "load"
    /\ row_i < Len(csv_file.lines)
    /\ LET row == DictRow(csv_file.fieldnames, csv_file.lines[row_i + 1])
       IN  IF ~readable \/ FilterRaises(emails_must_match_regex, row)
           THEN /\ pc' = OnFatal
                /\ fatal' = IF readable THEN "csv_filter" ELSE "csv_read"
                /\ UNCHANGED loaded
           ELSE /\ row_i' = row_i + 1
                /\ csv_data' = IF RowSkipped(emails_must_match_regex, row)
                               THEN csv_data
                               ELSE Append(csv_data, row)
                /\ UNCHANGED <<pc, fatal>>
    /\ UNCHANGED <<config, jobs, collected>>

\* the reader is exhausted: the file is closed and the executor is created
LoadDone ==
    /\ pc = "load"
    /\ row_i = Len(csv_file.lines)
    /\ pc' = "executor"
    /\ UNCHANGED <<fatal, config, loaded, jobs, collected>>

(* ------------------------- send_email --------------------------------- *)
\* what the logger.catch() decorator makes send_email return when an
\* exception escapes its body
CatchDefault == None

\* variant: the dry-run flag is ignored
ShouldSend_Always(is_dry_run) == TRUE

\* the test "if not is_dry_run" that guards the send_mail call
ShouldSend(is_dry_run) == ~is_dry_run

\* variant: the body is the one rendered for the first row
SendMailArgs_FirstBody(row, user_rendered_template) ==
    [recipient_emails |-> DictGet(row, "email_address"),
     body_content |-> Render(csv_data[1])]

\* the keyword arguments of the send_mail call
SendMailArgs(row, user_rendered_template) ==
    [recipient_emails |-> DictGet(row, "email_address"),
     body_content |-> user_rendered_template]

Terminal == {"skipped", "succeeded", "failed", "caught"}

\* variant: a job that is rendering does not count as using a worker
Running_OnlySending == Cardinality({ i \in 1..Len(state) : state[i] = "sending" })

\* variant: a worker is not given back when its job ends
Running_Leaky == Cardinality({ i \in 1..Len(state) : state[i] # "pending" })

\* number of jobs a worker thread is executing
Running == Cardinality({ i \in 1..Len(state) : state[i] \in {"rendering", "sending"} })

\* variant: a job whose send failed is put back in the queue
NextPending_Revisit(i) ==
    /\ i \in 1..Len(state)
    /\ state[i] \in {"pending", "failed"}
    /\ \A j \in 1..(i - 1) : state[j] # "pending"

\* the work queue is first-in first-out: an idle worker takes the oldest
\* pending job
NextPending(i) ==
    /\ i \in 1..Len(state)
    /\ state[i] = "pending"
    /\ \A j \in 1..(i - 1) : state[j] # "pending"

\* a worker takes job i and runs send_email up to the template.render call;
\* the first log line reads row['email_address'], a KeyError when the column
\* is missing, which the decorator catches
Start(i) ==
    /\ NextPending(i)
    /\ Running < max_concurrent_threads
    /\ IF HasKey(csv_data[i], "email_address")
       THEN /\ state' = [state EXCEPT ![i] = "rendering"]
            /\ render_calls' = [render_calls EXCEPT ![i] = @ + 1]
            /\ ret' = ret
       ELSE /\ state' = [state EXCEPT ![i] = "caught"]
            /\ ret' = [ret EXCEPT ![i] = CatchDefault]
            /\ render_calls' = render_calls
    /\ UNCHANGED <<pc, fatal, config, loaded, submitted, body, send_calls, raised,
                   collected>>

\* template.render returns for job i: in a dry run the job ends here,
\* otherwise send_mail is called with the rendered body
RenderReturn(i) ==
    /\ i \in 1..Len(state)
    /\ state[i] = "rendering"
    /\ LET user_rendered_template == Render(csv_data[i])
       IN  /\ body' = [body EXCEPT ![i] = user_rendered_template]
           /\ IF ShouldSend(dry_run)
              THEN /\ state' = [state EXCEPT ![i] = "sending"]
                   /\ send_calls' = [send_calls EXCEPT ![i] =
                          Append(@, SendMailArgs(csv_data[i], user_rendered_template))]
                   /\ ret' = ret
              ELSE /\ state' = [state EXCEPT ![i] = "skipped"]
                   /\ ret' = [ret EXCEPT ![i] = None]
                   /\ send_calls' = send_calls
    /\ UNCHANGED <<pc, fatal, config, loaded, submitted, render_calls, raised,
                   collected>>

\* template.render raises for job i: the decorator catches the exception
RenderRaise(i) ==
    /\ i \in 1..Len(state)
    /\ state[i] = "rendering"
    /\ state' = [state EXCEPT ![i] = "caught"]
    /\ ret' = [ret EXCEPT ![i] = CatchDefault]
    /\ UNCHANGED <<pc, fatal, config, loaded, submitted, body, render_calls,
                   send_calls, raised, collected>>

\* send_mail returns normally for job i
SendReturn(i) ==
    /\ i \in 1..Len(state)
    /\ state[i] = "sending"
    /\ state' = [state EXCEPT ![i] = "succeeded"]
    /\ ret' = [ret EXCEPT ![i] = None]
    /\ UNCHANGED <<pc, fatal, config, loaded, submitted, body, render_calls,
                   send_calls, raised, collected>>

\* send_mail raises err for job i: the except clause returns the failure dict
SendRaise(i, err) ==
    /\ i \in 1..Len(state)
    /\ state[i] = "sending"
    /\ state' = [state EXCEPT ![i] = "failed"]
    /\ raised' = [raised EXCEPT ![i] = err]
    /\ ret' = [ret EXCEPT ![i] = FailureInformation(csv_data[i], err, body[i])]
    /\ UNCHANGED <<pc, fatal, config, loaded, submitted, body, render_calls,
                   send_calls, collected>>

(* ----------------------- executor and results --------------------------- *)
\* ThreadPoolExecutor(max_workers=...): a ValueError unless max_workers > 0
CreateExecutor ==
    /\ pc = "executor"
    /\ IF max_concurrent_threads <= 0
       THEN pc' = OnFatal /\ fatal' = "executor"
       ELSE pc' = "submit" /\ fatal' = fatal
    /\ UNCHANGED <<config, loaded, jobs, collected>>

\* executor.map submits one future per row of csv_data, in order
Submit ==
    /\ pc = "submit"
    /\ submitted < Len(csv_data)
    /\ submitted' = submitted + 1
    /\ state' = Append(state, "pending")
    /\ body' = Append(body, None)
    /\ ret' = Append(ret, None)
    /\ render_calls' = Append(render_calls, 0)
    /\ send_calls' = Append(send_calls, <<>>)
    /\ raised' = Append(raised, None)
    /\ UNCHANGED <<pc, fatal, config, loaded, collected>>

\* every future is created: list() starts to consume the result iterator
MapReturns ==
    /\ pc = "submit"
    /\ submitted = Len(csv_data)
    /\ pc' = "collect"
    /\ UNCHANGED <<fatal, config, loaded, jobs, collected>>

\* variant: the futures are taken newest first
NextFuture_Reversed == Len(state) - fs_idx

\* the future the result iterator takes next: the oldest not yet taken
NextFuture == fs_idx + 1

\* variant: the result is read without waiting for the future
FutureDone_NoWait(i) == TRUE

\* future i holds its result
FutureDone(i) == state[i] \in Terminal

\* variant: a None result is not kept
Collected_DropNone(rs, r) == IF r = None THEN rs ELSE Append(rs, r)

\* list.append of one result
Collected(rs, r) == Append(rs, r)

\* the result iterator yields the next future's result once it is done
Collect ==
    /\ pc = "collect"
    /\ fs_idx < Len(state)
    /\ NextFuture \in 1..Len(state)
    /\ FutureDone(NextFuture)
    /\ results' = Collected(results, ret[NextFuture])
    /\ fs_idx' = fs_idx + 1
    /\ UNCHANGED <<pc, fatal, config, loaded, jobs, failures, export_file>>

\* the iterator is exhausted and the with block is left
ExecutorExit ==
    /\ pc = "collect"
    /\ fs_idx = Len(state)
    /\ pc' = "aggregate"
    /\ UNCHANGED <<fatal, config, loaded, jobs, collected>>

\* the failure list: the results that are not None
Failures(rs) == SelectSeq(rs, LAMBDA result : result # None)

Aggregate ==
    /\ pc = "aggregate"
    /\ failures' = Failures(results)
    /\ pc' = "export"
    /\ UNCHANGED <<fatal, config, loaded, jobs, fs_idx, results, export_file>>

\* variant: a single failure is not exported
ShouldExport_MoreThanOne(fs) == Len(fs) > 1

\* the test that decides whether the failure file is written
ShouldExport(fs) == Len(fs) > 0

\* csv.DictWriter with fieldnames = failures[0].keys(): the header line, then
\* one line per failure with its values in the header's order
ExportLines(fs) ==
    LET fieldnames == [k \in 1..Len(fs[1]) |-> fs[1][k][1]]
    IN  <<fieldnames>> \o
        [n \in 1..Len(fs) |-> [k \in 1..Len(fieldnames) |-> DictGet(fs[n], fieldnames[k])]]

\* the failure file is written, or the success line is logged
Export ==
    /\ pc = "export"
    /\ export_file' = IF ShouldExport(failures) THEN ExportLines(failures) ELSE None
    /\ pc' = "done"
    /\ UNCHANGED <<fatal, config, loaded, jobs, fs_idx, results, failures>>

Next ==
    \/ \E ok \in BOOLEAN : PreflightCheck(ok)
    \/ \E readable \in BOOLEAN : LoadRow(readable)
    \/ LoadDone
    \/ CreateExecutor
    \/ Submit
    \/ MapReturns
    \/ \E i \in 1..MaxRows : Start(i)
    \/ \E i \in 1..MaxRows : RenderReturn(i)
    \/ \E i \in 1..MaxRows : RenderRaise(i)
    \/ \E i \in 1..MaxRows : SendReturn(i)
    \/ \E i \in 1..MaxRows, err \in TransportErrors : SendRaise(i, err)
    \/ Collect
    \/ ExecutorExit
    \/ Aggregate
    \/ Export

Spec == Init /\ [][Next]_vars

\* the main thread keeps running; an idle worker takes a queued job; every
\* template.render call and every send_mail call returns or raises
Fairness ==
    /\ WF_vars(Submit \/ MapReturns \/ Collect \/ ExecutorExit \/ Aggregate \/ Export)
    /\ WF_vars(\E i \in 1..MaxRows : Start(i))
    /\ WF_vars(\E i \in 1..MaxRows : RenderReturn(i) \/ RenderRaise(i))
    /\ WF_vars(\E i \in 1..MaxRows, err \in TransportErrors :
                  SendReturn(i) \/ SendRaise(i, err))

\* the inputs of the runs checked for termination: every header, every
\* number of data lines, every pool size, dry run or not. send_email and the
\* executor never branch on the value of an address, only on the presence of
\* the column, and the pattern only decides which rows become jobs, so the
\* pattern is unset and every line carries the same address
FairInit ==
    /\ Init
    /\ emails_must_match_regex = None
    /\ \A i \in 1..Len(csv_file.lines) :
          Len(csv_file.lines[i]) = Len(csv_file.fieldnames)
    /\ \A i \in 1..Len(csv_file.lines) :
          Len(csv_file.lines[i]) = 2 => csv_file.lines[i][2] = <<"a", "@", "c">>

FairSpec == FairInit /\ [][Next]_vars /\ Fairness

(* ============================ properties ================================ *)
\* the main thread is past the with block: the batch result is complete
RunCompleted == pc \in {"aggregate", "export", "done"}

\* the jobs of the batch
Jobs == 1..Len(state)

\* template.render raised for job i
RenderRaised(i) == state[i] = "caught" /\ render_calls[i] > 0

\* send_mail raised for job i
SendRaised(i) == raised[i] # None

\* the file has the email_address column
HasAddressColumn ==
    \E k \in 1..Len(csv_file.fieldnames) : csv_file.fieldnames[k] = "email_address"

\* the failure record the batch result must hold for job i when its send raised
ExpectedFailureRecord(i) ==
    << <<"mail", DictGet(csv_data[i], "email_address")>>,
       <<"row", JsonDumps(csv_data[i])>>,
       <<"error", Str(raised[i])>>,
       <<"html_content", Render(csv_data[i])>> >>

\* C1: in a run that is not a dry run, when the batch result is complete every
\* job whose send_mail raised has, at its position, the failure record made of
\* its address, its serialized row, the error's string and its rendered body;
\* there are as many failure records as such jobs; and every job whose send
\* did not raise has the no-failure outcome it has in a run without failures.
C1_SendFailureIsolated ==
    (RunCompleted /\ ~dry_run) =>
        /\ Len(results) = Len(state)
        /\ \A i \in Jobs :
              IF SendRaised(i)
              THEN results[i] = ExpectedFailureRecord(i)
              ELSE results[i] = None
        /\ Cardinality({ k \in 1..Len(results) : results[k] # None })
              = Cardinality({ i \in Jobs : SendRaised(i) })

C1_Witness ==
    /\ pc = "done"
    /\ ~dry_run
    /\ \E i, j \in Jobs :
          /\ i < j
          /\ SendRaised(i)
          /\ results[i] # None
          /\ state[j] = "succeeded"

\* C2 (as claimed): when the run is done, every job whose template.render
\* raised has a failure record, not None, at its position of the batch result.
C2_RenderFailureRecorded ==
    pc = "done" => \A i \in Jobs : RenderRaised(i) => results[i] # None

\* C3 (as claimed): when the file has no email_address column no job is ever
\* submitted, and no render and no send is performed.
C3_MissingColumnAborts ==
    ~HasAddressColumn =>
        /\ submitted = 0
        /\ \A i \in Jobs : render_calls[i] = 0 /\ send_calls[i] = <<>>

\* C4: every position of the batch result built so far holds the outcome of
\* the job at that position: the value that job's future holds, a failure
\* record exactly when that job failed, and then the record of that job's row.
C4_ResultsAligned ==
    \A i \in 1..Len(results) :
        /\ i \in Jobs
        /\ state[i] \in Terminal
        /\ results[i] = ret[i]
        /\ (results[i] # None) <=> (state[i] = "failed")
        /\ results[i] # None => DictGet(results[i], "row") = JsonDumps(csv_data[i])

\* job 3 failed before job 2 finished, and the result of job 1 is collected
C4_Witness ==
    /\ Len(state) >= 3
    /\ max_concurrent_threads = 2
    /\ Len(results) = 1
    /\ results[1] = None
    /\ state[2] = "sending"
    /\ state[3] = "failed"

\* C5: when the run is past the executor, the batch result has one entry per
\* submitted job, and that is one per loaded row.
C5_ResultLength ==
    RunCompleted =>
        /\ Len(results) = submitted
        /\ Len(results) = Len(csv_data)

C5_Witness ==
    /\ pc = "done"
    /\ Len(results) >= 3
    /\ \E i, j, k \in Jobs :
          /\ state[i] = "failed"
          /\ state[j] = "succeeded"
          /\ state[k] = "caught"

\* C6: in a dry run send_mail is never called for any job, every entry of the
\* batch result is None, the failure list is empty and no file is exported.
C6_DryRunPurity ==
    dry_run =>
        /\ \A i \in Jobs : send_calls[i] = <<>> /\ state[i] \notin {"sending", "succeeded", "failed"}
        /\ \A k \in 1..Len(results) : results[k] = None
        /\ failures = <<>>
        /\ export_file = None

C6_Witness ==
    /\ dry_run
    /\ pc = "done"
    /\ Len(results) >= 2
    /\ \A i \in Jobs : state[i] = "skipped"

\* C7: once a pre-flight step or the loading of the CSV has raised, the run
\* is over: no job is submitted, no render and no send is performed, also
\* when rows were already loaded before the failure.
C7_FatalStopsBeforeDispatch ==
    fatal # "none" =>
        /\ pc = "aborted"
        /\ submitted = 0
        /\ state = <<>>
        /\ send_calls = <<>>
        /\ results = <<>>

\* the loading loop raised after it had already appended a row
C7_Witness ==
    /\ fatal \in {"csv_filter", "csv_read"}
    /\ pc = "aborted"
    /\ Len(csv_data) >= 1

\* the loading loop has run to the end of the file
LoadFinished == pc \in {"executor", "submit", "collect", "aggregate", "export", "done"}

\* the rows of the file, as the reader yields them
InputRows == [i \in 1..Len(csv_file.lines) |-> DictRow(csv_file.fieldnames, csv_file.lines[i])]

\* the row has an address string that the configured pattern does not match
NonMatching(row) ==
    /\ HasKey(row, "email_address")
    /\ DictGet(row, "email_address") # None
    /\ ~ReMatch(emails_must_match_regex, DictGet(row, "email_address"))

\* C8: with a pattern configured, once loading has finished the loaded rows
\* are the input rows whose address matches the pattern, in source order;
\* and the load is never ended by a row whose address merely fails to match.
C8_FilteredSubsequence ==
    PatternConfigured(emails_must_match_regex) =>
        /\ LoadFinished =>
              csv_data = SelectSeq(InputRows, LAMBDA row : ~NonMatching(row))
        /\ pc = "load" =>
              csv_data = SelectSeq(SubSeq(InputRows, 1, row_i), LAMBDA row : ~NonMatching(row))
        /\ fatal = "csv_filter" => ~NonMatching(InputRows[row_i + 1])

\* three data lines, one of which does not match: two rows are loaded
C8_Witness ==
    /\ PatternConfigured(emails_must_match_regex)
    /\ pc = "executor"
    /\ Len(csv_file.lines) = 3
    /\ \E i \in 1..3 : NonMatching(InputRows[i])
    /\ Len(csv_data) = 2

\* C9: the failure list is computed, and the export step taken, only when
\* every loaded row has a submitted job in a terminal state; before that the
\* failure list is empty, and once computed it is the sequence of the
\* entries of the batch result that are not None.
C9_NoEarlyAggregation ==
    /\ RunCompleted =>
          /\ Len(state) = Len(csv_data)
          /\ \A i \in Jobs : state[i] \in Terminal
    /\ pc \notin {"export", "done"} => failures = <<>> /\ export_file = None
    /\ pc \in {"export", "done"} =>
          failures = SelectSeq(results, LAMBDA r : r # None)

C9_Witness ==
    /\ pc = "export"
    /\ Len(failures) >= 1
    /\ Len(failures) < Len(results)

\* the jobs whose send raised, in input order
FailedJobs == SelectSeq([i \in 1..Len(state) |-> i], LAMBDA i : state[i] = "failed")

\* C10: when the run is done a failure file exists exactly when the batch
\* result holds a failure record; the file then has the header mail, row,
\* error, html_content and one line per failed job, in input order, with that
\* job's address, serialized row, error string and rendered body; and a job
\* that failed never ends the run.
C10_ExportIffFailures ==
    /\ pc = "done" =>
          /\ (export_file # None) <=> (\E k \in 1..Len(results) : results[k] # None)
          /\ export_file # None =>
                /\ Len(export_file) = 1 + Len(FailedJobs)
                /\ export_file[1] = <<"mail", "row", "error", "html_content">>
                /\ \A n \in 1..Len(FailedJobs) :
                      LET j == FailedJobs[n]
                      IN  export_file[n + 1] =
                              << DictGet(csv_data[j], "email_address"),
                                 JsonDumps(csv_data[j]),
                                 Str(raised[j]),
                                 body[j] >>
    /\ (\E i \in Jobs : state[i] = "failed") => pc # "aborted" /\ fatal = "none"

\* two jobs failed and one succeeded: the file has the header and two lines
C10_Witness ==
    /\ pc = "done"
    /\ export_file # None
    /\ Len(export_file) = 3
    /\ \E i \in Jobs : state[i] = "succeeded"

\* the steps a job may take: the chain pending, rendering, then skipped in a
\* dry run or sending otherwise, then succeeded or failed; a job whose body
\* raised outside the try block ends where it is (caught)
JobSteps ==
    { <<"pending", "rendering">>, <<"rendering", "sending">>, <<"rendering", "skipped">>,
      <<"sending", "succeeded">>, <<"sending", "failed">>,
      <<"pending", "caught">>, <<"rendering", "caught">> }

\* C11: every change of a job's state is one forward step of the chain
\* (skipped only in a dry run, sending only otherwise), no job is dropped
\* from the batch, a job in a terminal state never changes again, and in
\* every state each job has had at most one render call and at most one
\* send_mail call (exactly one when its send failed).
C11_ForwardOnly ==
    /\ [](\A i \in Jobs :
             /\ render_calls[i] <= 1
             /\ Len(send_calls[i]) <= 1
             /\ state[i] \in {"sending", "succeeded", "failed"} => Len(send_calls[i]) = 1
             /\ state[i] = "pending" => render_calls[i] = 0 /\ send_calls[i] = <<>>)
    /\ [][/\ Len(state') >= Len(state)
          /\ \A i \in 1..Len(state) :
                \/ state'[i] = state[i]
                \/ /\ <<state[i], state'[i]>> \in JobSteps
                   /\ state'[i] = "skipped" => dry_run
                   /\ state'[i] = "sending" => ~dry_run]_vars

\* a job's send failed, it was sent once, and the run went on to the end
C11_Witness ==
    /\ pc = "done"
    /\ \E i, j \in Jobs :
          /\ state[i] = "failed"
          /\ Len(send_calls[i]) = 1
          /\ render_calls[i] = 1
          /\ state[j] = "succeeded"

\* C12: under fair scheduling, from the moment executor.map starts to submit
\* the jobs, the run eventually reaches its end with one job per loaded row,
\* every one of them in a terminal state and its result collected.
C12_RunTerminates ==
    (pc = "submit") ~>
        (/\ pc = "done"
         /\ Len(state) = Len(csv_data)
         /\ Len(results) = Len(csv_data)
         /\ \A i \in Jobs : state[i] \in Terminal)

\* more jobs than workers, and the run has returned
C12_Witness ==
    /\ pc = "done"
    /\ max_concurrent_threads = 1
    /\ Len(state) >= 3
    /\ \A i \in Jobs : state[i] \in Terminal

\* C13: in every state the number of jobs that are rendering or sending is at
\* most max_concurrent_threads, and no step changes max_concurrent_threads.
C13_BoundedPool ==
    /\ [](Cardinality({ i \in Jobs : state[i] = "rendering" \/ state[i] = "sending" })
             <= max_concurrent_threads)
    /\ [][max_concurrent_threads' = max_concurrent_threads]_vars

\* the pool of one worker is busy while two more jobs wait in the queue
C13_Witness ==
    /\ max_concurrent_threads = 1
    /\ Len(state) >= 3
    /\ Cardinality({ i \in Jobs : state[i] = "rendering" \/ state[i] = "sending" }) = 1
    /\ Cardinality({ i \in Jobs : state[i] = "pending" }) >= 2

\* C14: in a run that is not a dry run, every send_mail call of a job is made
\* after that job's render has returned, with the address of that job's row
\* and the body rendered from that job's row, which is the body of no other
\* job; and the failure dict of a job whose send raised carries that body.
C14_OwnAddressAndBody ==
    ~dry_run =>
        \A i \in Jobs :
            /\ \A k \in 1..Len(send_calls[i]) :
                  /\ render_calls[i] = 1
                  /\ body[i] = Render(csv_data[i])
                  /\ send_calls[i][k].recipient_emails = DictGet(csv_data[i], "email_address")
                  /\ send_calls[i][k].body_content = Render(csv_data[i])
                  /\ \A j \in Jobs :
                        j # i => send_calls[i][k].body_content # Render(csv_data[j])
            /\ state[i] \in {"pending", "rendering", "caught"} => send_calls[i] = <<>>
            /\ state[i] = "failed" =>
                  /\ DictGet(ret[i], "html_content") = Render(csv_data[i])
                  /\ DictGet(ret[i], "mail") = DictGet(csv_data[i], "email_address")

\* the first job has failed and the two others are sending at the same time
C14_Witness ==
    /\ ~dry_run
    /\ Len(state) >= 3
    /\ state[1] = "failed"
    /\ state[2] = "sending"
    /\ state[3] = "sending"
    /\ DictGet(csv_data[2], "email_address") # DictGet(csv_data[3], "email_address")

\* C15 (as claimed): when a run that is not a dry run ends with an empty
\* failure list, send_mail was called exactly once for every loaded row and
\* returned normally.
C15_SuccessMeansAllSent ==
    (pc = "done" /\ ~dry_run /\ failures = <<>>) =>
        /\ Len(state) = Len(csv_data)
        /\ \A i \in Jobs : Len(send_calls[i]) = 1 /\ state[i] = "succeeded"

\* C16: when EMAILS_MUST_MATCH_REGEX is unset or empty, the rows loaded so
\* far are the lines read so far, in order, so that the loaded rows are all
\* the input rows once loading has finished; and the loop never raises on
\* the address field, also when the column is missing or the value is None.
C16_NoPatternLoadsAll ==
    (emails_must_match_regex = None \/ emails_must_match_regex = <<>>) =>
        /\ pc = "load" => csv_data = SubSeq(InputRows, 1, row_i)
        /\ LoadFinished => csv_data = InputRows
        /\ fatal # "csv_filter"

\* the empty pattern: a row with another domain, a row without an address
\* value and a further row are all loaded
C16_Witness ==
    /\ emails_must_match_regex = <<>>
    /\ pc = "executor"
    /\ Len(csv_data) = 3
    /\ HasAddressColumn
    /\ \E i, j \in 1..3 :
          /\ DictGet(csv_data[i], "email_address") = None
          /\ DictGet(csv_data[j], "email_address") = <<"b", "@", "d">>
====
